---- MODULE Spec2Model ----
(***************************************************************************)
(* release_dog: a daemon that polls the releases of a fixed list of        *)
(* repositories, keeps the last tag seen per repository in a cache file    *)
(* and shows a desktop notification when a tag changes (src/main.rs).      *)
(*                                                                         *)
(* Text (file content, HTTP bodies, notification bodies, repository names, *)
(* tags) is a sequence of one-character strings.  A JSON value is a record *)
(* [t, v]; a serde_json::Map is a sequence of <<key, value>> pairs kept    *)
(* sorted by key with unique keys (serde_json's default BTreeMap).         *)
(***************************************************************************)
EXTENDS Integers, Sequences, FiniteSets, TLC

(***************************************************************************)
(* Bounds of the model.                                                    *)
(***************************************************************************)
\* number of poll cycles a process is followed for
MaxCycles == 3
\* number of bytes a failing write_all may have written
MaxPartial == 2

(***************************************************************************)
(* Text.                                                                   *)
(***************************************************************************)
\* the characters that occur in keys, in ASCII order
Ascii == << " ", "\"", ",", ".", "/", "0", "1", "2", "3", "4", "5", "6", "7",
            "8", "9", ":", "<", ">", "[", "\\", "]", "_", "a", "b", "c", "d",
            "e", "g", "h", "l", "m", "n", "s", "t", "u", "v", "x", "{", "}" >>

Rank(c) == CHOOSE i \in 1..Len(Ascii) : Ascii[i] = c

\* String's Ord: bytewise lexicographic order
RECURSIVE StrLess(_, _)
StrLess(a, b) ==
    IF b = <<>> THEN FALSE
    ELSE IF a = <<>> THEN TRUE
    ELSE IF Head(a) # Head(b) THEN Rank(Head(a)) < Rank(Head(b))
    ELSE StrLess(Tail(a), Tail(b))

(***************************************************************************)
(* serde_json::Value and serde_json::Map.                                  *)
(***************************************************************************)
JNull == [t |-> "null", v |-> <<>>]
JBool(b) == [t |-> "bool", v |-> b]
JNum(digits) == [t |-> "num", v |-> digits]
JStr(s) == [t |-> "str", v |-> s]
JArr(elems) == [t |-> "arr", v |-> elems]
JObj(map) == [t |-> "obj", v |-> map]

MapNew == <<>>

MapKeys(m) == {m[i][1] : i \in 1..Len(m)}

MapHas(m, k) == \E i \in 1..Len(m) : m[i][1] = k

MapGet(m, k) == m[CHOOSE i \in 1..Len(m) : m[i][1] = k][2]

\* Map::insert: replaces the value of an existing key, else inserts in key order
MapInsert(m, k, val) ==
    IF MapHas(m, k)
    THEN [i \in 1..Len(m) |-> IF m[i][1] = k THEN <<k, val>> ELSE m[i]]
    ELSE LET below == SelectSeq(m, LAMBDA e : StrLess(e[1], k))
             above == SelectSeq(m, LAMBDA e : StrLess(k, e[1]))
         IN  below \o << <<k, val>> >> \o above

MapIsEmpty(m) == Len(m) = 0

\* Value::as_object, Value::as_array, Value::as_str: Some exactly for that shape
IsObject(val) == val.t = "obj"
IsArray(val) == val.t = "arr"
IsString(val) == val.t = "str"

\* Index<&str> for Value: the member of an object, Null for anything else
IndexKey(val, k) ==
    IF IsObject(val) /\ MapHas(val.v, k) THEN MapGet(val.v, k) ELSE JNull

(***************************************************************************)
(* serde_json::to_string, and Display for Value: compact JSON text.        *)
(***************************************************************************)
RECURSIVE Escape(_)
Escape(s) ==
    IF s = <<>> THEN <<>>
    ELSE IF Head(s) \in {"\"", "\\"} THEN <<"\\", Head(s)>> \o Escape(Tail(s))
    ELSE <<Head(s)>> \o Escape(Tail(s))

Quote(s) == <<"\"">> \o Escape(s) \o <<"\"">>

RECURSIVE ToJson(_)
RECURSIVE ElemsToJson(_)
RECURSIVE MembersToJson(_)
ToJson(val) ==
    CASE val.t = "null" -> <<"n", "u", "l", "l">>
      [] val.t = "bool" -> IF val.v THEN <<"t", "r", "u", "e">>
                                    ELSE <<"f", "a", "l", "s", "e">>
      [] val.t = "num" -> val.v
      [] val.t = "str" -> Quote(val.v)
      [] val.t = "arr" -> <<"[">> \o ElemsToJson(val.v) \o <<"]">>
      [] val.t = "obj" -> <<"{">> \o MembersToJson(val.v) \o <<"}">>

ElemsToJson(elems) ==
    IF elems = <<>> THEN <<>>
    ELSE ToJson(Head(elems))
         \o (IF Len(elems) > 1 THEN <<",">> ELSE <<>>)
         \o ElemsToJson(Tail(elems))

MembersToJson(m) ==
    IF m = <<>> THEN <<>>
    ELSE Quote(Head(m)[1]) \o <<":">> \o ToJson(Head(m)[2])
         \o (IF Len(m) > 1 THEN <<",">> ELSE <<>>)
         \o MembersToJson(Tail(m))

\* serde_json::to_string(&Map)
to_string(map) == ToJson(JObj(map))

(***************************************************************************)
(* serde_json::from_str: one JSON value, then nothing but whitespace.      *)
(* A parse result is [ok, val, pos]: pos is the index after the value.     *)
(***************************************************************************)
Whitespace == {" "}
Digits == {"0", "1", "2", "3", "4", "5", "6", "7", "8", "9"}

ParseFail == [ok |-> FALSE, val |-> JNull, pos |-> 0]
ParseOk(val, pos) == [ok |-> TRUE, val |-> val, pos |-> pos]

RECURSIVE SkipWs(_, _)
SkipWs(s, i) ==
    IF i <= Len(s) /\ s[i] \in Whitespace THEN SkipWs(s, i + 1) ELSE i

HasAt(s, i, word) ==
    /\ i + Len(word) - 1 <= Len(s)
    /\ SubSeq(s, i, i + Len(word) - 1) = word

\* the characters of a string literal, from just after its opening quote
RECURSIVE ParseChars(_, _, _)
ParseChars(s, i, acc) ==
    IF i > Len(s) THEN ParseFail
    ELSE IF s[i] = "\"" THEN ParseOk(JStr(acc), i + 1)
    ELSE IF s[i] = "\\"
         THEN IF i + 1 <= Len(s) /\ s[i + 1] \in {"\"", "\\"}
              THEN ParseChars(s, i + 2, Append(acc, s[i + 1]))
              ELSE ParseFail
    ELSE ParseChars(s, i + 1, Append(acc, s[i]))

RECURSIVE ParseDigits(_, _, _)
ParseDigits(s, i, acc) ==
    IF i <= Len(s) /\ s[i] \in Digits
    THEN ParseDigits(s, i + 1, Append(acc, s[i]))
    ELSE ParseOk(JNum(acc), i)

RECURSIVE ParseValue(_, _)
RECURSIVE ParseElems(_, _, _)
RECURSIVE ParseMembers(_, _, _)
ParseValue(s, i0) ==
    LET i == SkipWs(s, i0) IN
    IF i > Len(s) THEN ParseFail
    ELSE IF s[i] = "\"" THEN ParseChars(s, i + 1, <<>>)
    ELSE IF s[i] \in Digits THEN ParseDigits(s, i, <<>>)
    ELSE IF HasAt(s, i, <<"n", "u", "l", "l">>) THEN ParseOk(JNull, i + 4)
    ELSE IF HasAt(s, i, <<"t", "r", "u", "e">>) THEN ParseOk(JBool(TRUE), i + 4)
    ELSE IF HasAt(s, i, <<"f", "a", "l", "s", "e">>) THEN ParseOk(JBool(FALSE), i + 5)
    ELSE IF s[i] = "["
         THEN LET j == SkipWs(s, i + 1) IN
              IF j <= Len(s) /\ s[j] = "]" THEN ParseOk(JArr(<<>>), j + 1)
              ELSE ParseElems(s, j, <<>>)
    ELSE IF s[i] = "{"
         THEN LET j == SkipWs(s, i + 1) IN
              IF j <= Len(s) /\ s[j] = "}" THEN ParseOk(JObj(MapNew), j + 1)
              ELSE ParseMembers(s, j, MapNew)
    ELSE ParseFail

\* the elements of an array, from the start of an element
ParseElems(s, i, acc) ==
    LET e == ParseValue(s, i) IN
    IF ~e.ok THEN ParseFail
    ELSE LET j == SkipWs(s, e.pos) IN
         IF j > Len(s) THEN ParseFail
         ELSE IF s[j] = "," THEN ParseElems(s, j + 1, Append(acc, e.val))
         ELSE IF s[j] = "]" THEN ParseOk(JArr(Append(acc, e.val)), j + 1)
         ELSE ParseFail

\* the members of an object, from the start of a key
ParseMembers(s, i0, acc) ==
    LET i == SkipWs(s, i0) IN
    IF i > Len(s) \/ s[i] # "\"" THEN ParseFail
    ELSE LET k == ParseChars(s, i + 1, <<>>) IN
         IF ~k.ok THEN ParseFail
         ELSE LET c == SkipWs(s, k.pos) IN
              IF c > Len(s) \/ s[c] # ":" THEN ParseFail
              ELSE LET e == ParseValue(s, c + 1) IN
                   IF ~e.ok THEN ParseFail
                   ELSE LET j == SkipWs(s, e.pos)
                            m == MapInsert(acc, k.val.v, e.val)
                        IN  IF j > Len(s) THEN ParseFail
                            ELSE IF s[j] = "," THEN ParseMembers(s, j + 1, m)
                            ELSE IF s[j] = "}" THEN ParseOk(JObj(m), j + 1)
                            ELSE ParseFail

\* serde_json::from_str::<Value>: [ok, val]; trailing characters are an error
from_str(s) ==
    LET r == ParseValue(s, 1) IN
    IF r.ok /\ SkipWs(s, r.pos) > Len(s)
    THEN [ok |-> TRUE, val |-> r.val]
    ELSE [ok |-> FALSE, val |-> JNull]

(***************************************************************************)
(* Inputs: command lines, cache files found at startup, tags, HTTP bodies. *)
(***************************************************************************)
RepoAB == <<"a", "/", "b">>
RepoCD == <<"c", "/", "d">>

V10 == <<"v", "1", ".", "0">>
V11 == <<"v", "1", ".", "1">>
V110 == <<"v", "1", ".", "1", "0">>

\* values of the --repos argument
ReposArgs ==
    { RepoAB \o <<",">> \o RepoCD \o <<" ">>,
      RepoAB \o <<",">> \o RepoAB }

TagNameKey == <<"t", "a", "g", "_", "n", "a", "m", "e">>

Release(tag) == <<"{">> \o <<"\"">> \o TagNameKey \o <<"\"", ":", "\"">> \o tag \o <<"\"", "}">>

\* bodies the releases endpoint answers with
BodyV10 == <<"[">> \o Release(V10) \o <<"]">>
BodyV11 == <<"[">> \o Release(V11) \o <<",", " ">> \o Release(V10) \o <<"]">>
BodyV110 == <<"[">> \o Release(V110) \o <<"]">>
BodyEmptyList == <<"[", "]">>
BodyNotList == <<"{", "\"", "m", "e", "s", "s", "a", "g", "e", "\"", ":", "\"", "x", "\"", "}">>
BodyNotJson == <<"<", "h", "t", "m", "l", ">">>
BodyNoTag == <<"[", "{", "\"", "n", "a", "m", "e", "\"", ":", "\"", "x", "\"", "}", "]">>
Bodies ==
    {BodyV10, BodyV11, BodyV110, BodyEmptyList, BodyNotList, BodyNotJson, BodyNoTag}

\* contents of the cache file found at startup
FileAB == <<"{", "\"">> \o RepoAB \o <<"\"", ":", "\"">> \o V110 \o <<"\"", "}">>
FileBoth ==
    <<"{", "\"">> \o RepoCD \o <<"\"", ":", " ", "\"">> \o V11 \o <<"\"", ",", " ", "\"">>
        \o RepoAB \o <<"\"", ":", " ", "\"">> \o V10 \o <<"\"", "}">>
FileList == <<"[", "]">>
FileString == <<"\"">> \o V10 \o <<"\"">>
FileNumber == <<"1">>
FileCut == <<"{", "\"">> \o RepoAB \o <<"\"", ":">>
StartFiles == {FileAB, FileBoth, FileList, FileString, FileNumber, FileCut}

(***************************************************************************)
(* main: the command line (line 33).                                       *)
(***************************************************************************)
RECURSIVE TrimStart(_)
TrimStart(s) ==
    IF s # <<>> /\ Head(s) \in Whitespace THEN TrimStart(Tail(s)) ELSE s

RECURSIVE TrimEnd(_)
TrimEnd(s) ==
    IF s # <<>> /\ s[Len(s)] \in Whitespace
    THEN TrimEnd(SubSeq(s, 1, Len(s) - 1)) ELSE s

\* str::trim
Trim(s) == TrimEnd(TrimStart(s))

\* str::split(','): the pieces between commas; never an empty list
RECURSIVE Split(_, _)
Split(s, piece) ==
    IF s = <<>> THEN <<piece>>
    ELSE IF Head(s) = "," THEN <<piece>> \o Split(Tail(s), <<>>)
    ELSE Split(Tail(s), Append(piece, Head(s)))

ParseRepos(arg) == Split(Trim(arg), <<>>)

(***************************************************************************)
(* State.                                                                  *)
(***************************************************************************)
VARIABLES
    repos,              \* main: the configured repositories, in order
    file_exists,        \* whether the cache file exists
    file,               \* the content of the cache file
    phase,              \* "Polling", "Shutdown" (ctrl_c won the select), "Panicked"
    pc,                 \* where run_daemon stands
    cycle,              \* the number of the poll cycle (iteration of the loop)
    idx,                \* the position in repos of the repository being polled
    release_info,       \* run_daemon: the Release Cache
    new_release_info,   \* run_daemon: the Change Set of the cycle
    body,               \* the response text the cycle is about to parse
    notified,           \* the body of the notification shown in this cycle
    save_result,        \* what write_cache_file returned in this cycle
    panic,              \* the call whose panic ended the process, or "none"
    logged,             \* the message run_daemon logged in its last step, or "none"
    requested,          \* the repositories requested so far in this cycle
    startup_info,       \* history: the Release Cache this process started with
    observed,           \* history: repository -> the tag this process read for it last
    fetched,            \* history: what each fetch of this cycle yielded, in order
    last_cycle,         \* history: the yields and the save result of the cycle before
    announced           \* history: the <<repo, tag>> notified in a cycle whose save
                        \* succeeded, until a fetch of repo reads another tag

vars == <<repos, file_exists, file, phase, pc, cycle, idx, release_info,
          new_release_info, body, notified, save_result, panic, logged,
          requested, startup_info, observed, fetched, last_cycle, announced>>

\* what is recorded of the run so far; no step of the program reads it
history == <<startup_info, observed, fetched, last_cycle, announced>>

\* no cycle before this one
NoCycle == [fetched |-> <<>>, saved |-> "none"]

\* what one fetch yields to the diff of lines 85-97: a tag, or none (the
\* request or the body failed, or the body names no tag)
NoTag == [kind |-> "none", tag |-> <<>>]
Yield(seen) == IF seen.kind = "tag" THEN seen ELSE NoTag

\* the .await points, were write_cache_file to await its write
SuspensionPointsWithSave == {"delay", "send", "text", "faildelay", "sleep", "save"}

\* the .await points of run_daemon: the places where select! can drop it
SuspensionPoints == {"delay", "send", "text", "faildelay", "sleep"}

Init ==
    /\ repos \in {ParseRepos(arg) : arg \in ReposArgs}
    /\ \/ file_exists = FALSE /\ file = <<>>
       \/ file_exists = TRUE /\ file \in StartFiles
    /\ phase = "Polling"
    /\ pc = "start"
    /\ cycle = 1
    /\ idx = 1
    /\ release_info = MapNew
    /\ new_release_info = MapNew
    /\ body = <<>>
    /\ notified = <<>>
    /\ save_result = "none"
    /\ panic = "none"
    /\ logged = "none"
    /\ requested = <<>>
    /\ startup_info = MapNew
    /\ observed = MapNew
    /\ fetched = <<>>
    /\ last_cycle = NoCycle
    /\ announced = {}

(***************************************************************************)
(* read_cache_file (lines 121-144) and how run_daemon uses it (48-51).     *)
(***************************************************************************)
\* lines 124-131: a missing cache file is created holding "{}"
CreateIfMissing(exists, content) == IF exists THEN content ELSE <<"{", "}">>

\* lines 135-143: Err when reading fails or the text is not JSON
read_cache_file(content, read_ok) ==
    IF read_ok THEN from_str(content) ELSE [ok |-> FALSE, val |-> JNull]

\* line 49: json.as_object().unwrap() panics on a value that is not an object
LoadPanics(loaded) == loaded.ok /\ ~IsObject(loaded.val)

\* lines 48-51: the Release Cache the daemon starts with
LoadedCache(loaded) == IF loaded.ok THEN loaded.val.v ELSE MapNew

\* run_daemon up to its first .await: lines 47-58
Startup ==
    /\ phase = "Polling" /\ pc = "start"
    /\ \E open_ok \in BOOLEAN, read_ok \in BOOLEAN :
         IF ~open_ok
         THEN \* lines 129, 133: OpenOptions::open(..).unwrap()
              /\ phase' = "Panicked" /\ panic' = "open"
              /\ logged' = "none"
              /\ UNCHANGED <<file_exists, file, pc, release_info, startup_info>>
         ELSE LET content == CreateIfMissing(file_exists, file)
                  loaded == read_cache_file(content, read_ok)
              IN  /\ file_exists' = TRUE
                  /\ file' = content
                  /\ IF LoadPanics(loaded)
                     THEN /\ phase' = "Panicked" /\ panic' = "as_object"
                          /\ logged' = "none"
                          /\ UNCHANGED <<pc, release_info, startup_info>>
                     ELSE /\ release_info' = LoadedCache(loaded)
                          /\ startup_info' = LoadedCache(loaded)
                          /\ pc' = "delay"
                          /\ logged' = "checking"
                          /\ UNCHANGED <<phase, panic>>
    /\ UNCHANGED <<repos, cycle, idx, new_release_info, body, notified, save_result,
                   requested, observed, fetched, last_cycle, announced>>

(***************************************************************************)
(* run_daemon: the pass over the repositories (lines 56-107).              *)
(***************************************************************************)
\* the for loop moves on: the next repository's delay, or the code after the loop
Advance ==
    IF idx < Len(repos)
    THEN idx' = idx + 1 /\ pc' = "delay"
    ELSE idx' = idx /\ pc' = "notify"

\* line 58: the five-second delay elapses and the request is sent
InterRequestDelay ==
    /\ phase = "Polling" /\ pc = "delay"
    /\ pc' = "send"
    /\ requested' = Append(requested, repos[idx])
    /\ logged' = "none"
    /\ UNCHANGED <<repos, file_exists, file, phase, cycle, idx, release_info,
                   new_release_info, body, notified, save_result, panic, history>>

\* Send whose error arm logs and continues without the delay of line 76
SendWithoutBackoff ==
    /\ phase = "Polling" /\ pc = "send"
    /\ \/ pc' = "text" /\ logged' = "none" /\ idx' = idx /\ fetched' = fetched
       \/ Advance /\ logged' = "send_error" /\ fetched' = Append(fetched, NoTag)
    /\ UNCHANGED <<repos, file_exists, file, phase, cycle, release_info,
                   new_release_info, body, notified, save_result, panic, requested,
                   startup_info, observed, last_cycle, announced>>

\* lines 60-65, 74-76: send() resolves, with a response or an error
Send ==
    /\ phase = "Polling" /\ pc = "send"
    /\ \/ pc' = "text" /\ logged' = "none" /\ fetched' = fetched
       \/ pc' = "faildelay" /\ logged' = "send_error"
          /\ fetched' = Append(fetched, NoTag)
    /\ UNCHANGED <<repos, file_exists, file, phase, cycle, idx, release_info,
                   new_release_info, body, notified, save_result, panic, requested,
                   startup_info, observed, last_cycle, announced>>

\* lines 66-70: text() resolves, with the body or an error
Text ==
    /\ phase = "Polling" /\ pc = "text"
    /\ \/ \E b \in Bodies :
            /\ body' = b /\ pc' = "parse" /\ logged' = "none"
            /\ fetched' = fetched
       \/ /\ body' = body /\ pc' = "faildelay" /\ logged' = "response_error"
          /\ fetched' = Append(fetched, NoTag)
    /\ UNCHANGED <<repos, file_exists, file, phase, cycle, idx, release_info,
                   new_release_info, notified, save_result, panic, requested,
                   startup_info, observed, last_cycle, announced>>

\* PostFailureDelay that tries the same repository again
PostFailureRetry ==
    /\ phase = "Polling" /\ pc = "faildelay"
    /\ pc' = "delay" /\ idx' = idx
    /\ logged' = "none"
    /\ UNCHANGED <<repos, file_exists, file, phase, cycle, release_info,
                   new_release_info, body, notified, save_result, panic, requested,
                   history>>

\* lines 70-71, 76-77: the two-second delay elapses; continue
PostFailureDelay ==
    /\ phase = "Polling" /\ pc = "faildelay"
    /\ Advance
    /\ logged' = "none"
    /\ UNCHANGED <<repos, file_exists, file, phase, cycle, release_info,
                   new_release_info, body, notified, save_result, panic, requested,
                   history>>

\* Observe that takes the JSON text of tag_name when it is not a string
ObserveLenient(text) ==
    LET r == from_str(text) IN
    IF ~r.ok THEN [kind |-> "parse_error", tag |-> <<>>]
    ELSE IF ~IsArray(r.val) THEN [kind |-> "no_releases", tag |-> <<>>]
    ELSE IF Len(r.val.v) = 0 THEN [kind |-> "panic", tag |-> <<>>]
    ELSE LET tag_name == IndexKey(r.val.v[1], TagNameKey) IN
         IF IsString(tag_name) THEN [kind |-> "tag", tag |-> tag_name.v]
         ELSE [kind |-> "tag", tag |-> ToJson(tag_name)]

\* lines 81-85, 99-105: what the body says
\* kind: "parse_error", "no_releases" (not an array), "panic" (releases.get(0)
\* .unwrap() on an empty array), "no_tag", "tag"
Observe(text) ==
    LET r == from_str(text) IN
    IF ~r.ok THEN [kind |-> "parse_error", tag |-> <<>>]
    ELSE IF ~IsArray(r.val) THEN [kind |-> "no_releases", tag |-> <<>>]
    ELSE IF Len(r.val.v) = 0 THEN [kind |-> "panic", tag |-> <<>>]
    ELSE LET tag_name == IndexKey(r.val.v[1], TagNameKey) IN
         IF IsString(tag_name) THEN [kind |-> "tag", tag |-> tag_name.v]
         ELSE [kind |-> "no_tag", tag |-> <<>>]

\* Changes without the comparison of line 88
ChangesWithoutCompare(info, new, repo, tag_name) ==
    IF MapHas(info, repo)
    THEN MapInsert(new, repo, JStr(tag_name))
    ELSE new

\* Changes without the test of line 87 for an earlier entry
ChangesWithoutPrior(info, new, repo, tag_name) ==
    IF ~MapHas(info, repo) \/ MapGet(info, repo) # JStr(tag_name)
    THEN MapInsert(new, repo, JStr(tag_name))
    ELSE new

\* lines 87-94: the Change Set after a tag was observed
Changes(info, new, repo, tag_name) ==
    IF MapHas(info, repo) /\ MapGet(info, repo) # JStr(tag_name)
    THEN MapInsert(new, repo, JStr(tag_name))
    ELSE new

\* Upsert that keeps the entry a repository already has
UpsertIfAbsent(info, repo, tag_name) ==
    IF MapHas(info, repo) THEN info ELSE MapInsert(info, repo, JStr(tag_name))

\* lines 95-96: the Release Cache after a tag was observed
Upsert(info, repo, tag_name) == MapInsert(info, repo, JStr(tag_name))

\* lines 86, 100, 104: the message logged for what the body says
Message(seen) ==
    CASE seen.kind = "tag" -> "tag"
      [] seen.kind = "no_releases" -> "no_releases"
      [] seen.kind = "parse_error" -> "parse_error"
      [] OTHER -> "none"

\* lines 81-106: the body is parsed and diffed against the cache
ParseBody ==
    /\ phase = "Polling" /\ pc = "parse"
    /\ LET seen == Observe(body)
           repo == repos[idx]
       IN  IF seen.kind = "panic"
           THEN /\ phase' = "Panicked" /\ panic' = "get_0"
                /\ logged' = "none"
                /\ UNCHANGED <<pc, idx, body, release_info, new_release_info,
                               observed, fetched, announced>>
           ELSE /\ IF seen.kind = "tag"
                   THEN /\ new_release_info' =
                             Changes(release_info, new_release_info, repo, seen.tag)
                        /\ release_info' = Upsert(release_info, repo, seen.tag)
                        /\ observed' = MapInsert(observed, repo, JStr(seen.tag))
                        /\ announced' = {a \in announced :
                                            a[1] # repo \/ a[2] = JStr(seen.tag)}
                   ELSE UNCHANGED <<release_info, new_release_info, observed,
                                    announced>>
                /\ logged' = Message(seen)
                /\ fetched' = Append(fetched, Yield(seen))
                /\ body' = <<>>
                /\ Advance
                /\ UNCHANGED <<phase, panic>>
    /\ UNCHANGED <<repos, file_exists, file, cycle, notified, save_result, requested,
                   startup_info, last_cycle>>

(***************************************************************************)
(* release_notify (lines 164-177) and its call (109-111).                  *)
(***************************************************************************)
\* line 168: format!("{}: {}\n", repo, release), release shown by Value's Display
Line(repo, release) == repo \o <<":", " ">> \o ToJson(release) \o <<"\n">>

\* lines 165-169
RECURSIVE Content(_)
Content(json) ==
    IF json = <<>> THEN <<>>
    ELSE Line(Head(json)[1], Head(json)[2]) \o Content(Tail(json))

\* lines 109-111, 170-175: show().unwrap() panics when the display fails
Notify ==
    /\ phase = "Polling" /\ pc = "notify"
    /\ IF MapIsEmpty(new_release_info)
       THEN pc' = "save" /\ UNCHANGED <<phase, notified, panic>>
       ELSE \E shown \in BOOLEAN :
              IF shown
              THEN /\ notified' = Content(new_release_info)
                   /\ pc' = "save"
                   /\ UNCHANGED <<phase, panic>>
              ELSE /\ phase' = "Panicked" /\ panic' = "show"
                   /\ UNCHANGED <<pc, notified>>
    /\ logged' = "none"
    /\ UNCHANGED <<repos, file_exists, file, cycle, idx, release_info,
                   new_release_info, body, save_result, requested, history>>

(***************************************************************************)
(* write_cache_file (lines 146-162) and its call (113-116).                *)
(***************************************************************************)
\* a write that reports success and leaves the file as it was
WriteLost(old, bytes) == old

\* lines 152-158: the file is opened without truncate and written from offset 0
WriteAt(old, bytes) == bytes \o SubSeq(old, Len(bytes) + 1, Len(old))

\* lines 113-116, 150-161
Save ==
    /\ phase = "Polling" /\ pc = "save"
    /\ LET bytes == to_string(release_info) IN
       \/ \* line 156: open(..).unwrap()
          /\ phase' = "Panicked" /\ panic' = "open_write"
          /\ logged' = "none"
          /\ UNCHANGED <<file_exists, file, pc, save_result, announced>>
       \/ \* line 159
          /\ file' = WriteAt(file, bytes)
          /\ file_exists' = TRUE
          /\ save_result' = "ok"
          /\ announced' = IF notified = <<>> THEN announced
                          ELSE announced \cup {new_release_info[i] :
                                                 i \in 1..Len(new_release_info)}
          /\ logged' = "none"
          /\ pc' = "sleep"
          /\ UNCHANGED <<phase, panic>>
       \/ \* line 160: write_all fails, some first bytes being written already
          /\ \E written \in 0..MaxPartial :
               /\ written < Len(bytes)
               /\ file' = WriteAt(file, SubSeq(bytes, 1, written))
          /\ file_exists' = TRUE
          /\ save_result' = "err"
          /\ logged' = "write_error"
          /\ pc' = "sleep"
          /\ UNCHANGED <<phase, panic, announced>>
    /\ UNCHANGED <<repos, cycle, idx, release_info, new_release_info, body, notified,
                   requested, startup_info, observed, fetched, last_cycle>>

\* Sleep after which the Change Set is not made anew (line 55 left out)
SleepKeepingChangeSet ==
    /\ phase = "Polling" /\ pc = "sleep"
    /\ cycle < MaxCycles
    /\ cycle' = cycle + 1
    /\ idx' = 1
    /\ new_release_info' = new_release_info
    /\ notified' = <<>>
    /\ save_result' = "none"
    /\ logged' = "checking"
    /\ requested' = <<>>
    /\ last_cycle' = [fetched |-> fetched, saved |-> save_result]
    /\ fetched' = <<>>
    /\ pc' = "delay"
    /\ UNCHANGED <<repos, file_exists, file, phase, release_info, body, panic,
                   startup_info, observed, announced>>

\* lines 117, 53-58: the hour elapses and the next cycle begins
Sleep ==
    /\ phase = "Polling" /\ pc = "sleep"
    /\ cycle < MaxCycles
    /\ cycle' = cycle + 1
    /\ idx' = 1
    /\ new_release_info' = MapNew
    /\ notified' = <<>>
    /\ save_result' = "none"
    /\ logged' = "checking"
    /\ requested' = <<>>
    /\ last_cycle' = [fetched |-> fetched, saved |-> save_result]
    /\ fetched' = <<>>
    /\ pc' = "delay"
    /\ UNCHANGED <<repos, file_exists, file, phase, release_info, body, panic,
                   startup_info, observed, announced>>

(***************************************************************************)
(* main: select! over run_daemon and ctrl_c (lines 37-41).                 *)
(***************************************************************************)
\* a shutdown that writes the Release Cache out before the process ends
ShutdownFlushing ==
    /\ phase = "Polling" /\ pc \in SuspensionPoints
    /\ phase' = "Shutdown"
    /\ file' = WriteAt(file, to_string(release_info))
    /\ UNCHANGED <<repos, file_exists, pc, cycle, idx, release_info,
                   new_release_info, body, notified, save_result, panic, logged,
                   requested, history>>

\* a shutdown that is only seen by the one-hour sleep
ShutdownInSleepOnly ==
    /\ phase = "Polling" /\ pc = "sleep"
    /\ phase' = "Shutdown"
    /\ UNCHANGED <<repos, file_exists, file, pc, cycle, idx, release_info,
                   new_release_info, body, notified, save_result, panic, logged,
                   requested, history>>

\* ctrl_c completes while run_daemon is pending at an .await: the future is dropped
Shutdown ==
    /\ phase = "Polling" /\ pc \in SuspensionPoints
    /\ phase' = "Shutdown"
    /\ UNCHANGED <<repos, file_exists, file, pc, cycle, idx, release_info,
                   new_release_info, body, notified, save_result, panic, logged,
                   requested, history>>

Next ==
    \/ Startup
    \/ InterRequestDelay
    \/ Send
    \/ Text
    \/ PostFailureDelay
    \/ ParseBody
    \/ Notify
    \/ Save
    \/ Sleep
    \/ Shutdown

Spec == Init /\ [][Next]_vars

\* the daemon is started again after it ended: a new process with the same
\* arguments and the cache file as the old one left it (lines 28-51)
Restart ==
    /\ phase \in {"Shutdown", "Panicked"}
    /\ cycle < MaxCycles
    /\ cycle' = cycle + 1
    /\ phase' = "Polling"
    /\ pc' = "start"
    /\ idx' = 1
    /\ release_info' = MapNew
    /\ new_release_info' = MapNew
    /\ body' = <<>>
    /\ notified' = <<>>
    /\ save_result' = "none"
    /\ panic' = "none"
    /\ logged' = "none"
    /\ requested' = <<>>
    /\ startup_info' = MapNew
    /\ observed' = MapNew
    /\ fetched' = <<>>
    /\ last_cycle' = NoCycle
    /\ UNCHANGED <<repos, file_exists, file, announced>>

NextRestart ==
    \/ Next
    \/ Restart

\* the program, ended and started again any number of times
SpecRestart == Init /\ [][NextRestart]_vars

(***************************************************************************)
(* Properties.                                                             *)
(***************************************************************************)
\* the bodies that list at least one release with a tag, and the tag of the first
TagBodies == {BodyV10, BodyV11, BodyV110}
AnnouncedTag(b) ==
    CASE b = BodyV10 -> V10
      [] b = BodyV11 -> V11
      [] b = BodyV110 -> V110

\* the file holds a JSON object
HoldsObject(content) == from_str(content).ok /\ IsObject(from_str(content).val)

\* a fetch has succeeded with a tag and the loop is about to diff it
FetchedTag == phase = "Polling" /\ pc = "parse" /\ body \in TagBodies

\* C1: when the repository has a cached tag T and its fetch succeeds with tag
\* T2, then, if T2 differs from T, (repo, T2) is put in the cycle's Change Set
\* and the cache entry becomes T2; if T2 equals T, the Change Set and the
\* cache stay as they are.  An entry stays in the Change Set for the rest of
\* the cycle's pass.
C1_DiffAgainstCachedTag ==
    /\ [][ FetchedTag /\ MapHas(release_info, repos[idx]) =>
             LET repo == repos[idx]
                 T == MapGet(release_info, repo)
                 T2 == JStr(AnnouncedTag(body))
             IN  IF T2 # T
                 THEN /\ MapHas(new_release_info', repo)
                      /\ MapGet(new_release_info', repo) = T2
                      /\ MapGet(release_info', repo) = T2
                 ELSE /\ new_release_info' = new_release_info
                      /\ release_info' = release_info ]_vars
    /\ [][ cycle' = cycle =>
             MapKeys(new_release_info) \subseteq MapKeys(new_release_info') ]_vars

\* C1 witness: a/b was cached as v1.10, its fetch returned v1.1, and the pass
\* ended with (a/b, v1.1) in the Change Set and in the cache
C1_Witness ==
    /\ pc = "notify" /\ cycle = 1
    /\ MapHas(new_release_info, RepoAB)
    /\ MapGet(new_release_info, RepoAB) = JStr(V11)
    /\ MapGet(release_info, RepoAB) = JStr(V11)

\* C2: when the repository has no cache entry and its fetch succeeds with a
\* tag, the tag is written to the cache and the Change Set is left alone; a
\* repository without a cache entry is never in the Change Set.
C2_FirstObservationSilent ==
    /\ [](MapKeys(new_release_info) \subseteq MapKeys(release_info))
    /\ [][ FetchedTag /\ ~MapHas(release_info, repos[idx]) =>
             /\ MapHas(release_info', repos[idx])
             /\ MapGet(release_info', repos[idx]) = JStr(AnnouncedTag(body))
             /\ new_release_info' = new_release_info ]_vars

\* C2 witness: c/d, absent from the cache file, was observed in the first
\* cycle; it is cached and the pass ended without a Change Set entry for it
C2_Witness ==
    /\ pc = "notify" /\ cycle = 1
    /\ HoldsObject(file) /\ ~MapHas(from_str(file).val.v, RepoCD)
    /\ MapHas(release_info, RepoCD)
    /\ ~MapHas(new_release_info, RepoCD)
    /\ MapIsEmpty(new_release_info)

\* C3: after a successful save, loading the cache file yields the cache that
\* was saved.
C3_SaveLoadRoundTrip ==
    save_result = "ok" =>
        LET loaded == read_cache_file(file, TRUE) IN
        /\ loaded.ok
        /\ IsObject(loaded.val)
        /\ loaded.val.v = release_info

\* C4: no outcome of a fetch ends the process: the loop never stops at the
\* parsing of a body.
C4_FetchNeverAborts == ~(phase = "Panicked" /\ pc = "parse")

\* C5: at startup, when the cache file exists, can be opened and does not hold
\* a JSON object, the daemon enters the poll loop with an empty Release Cache.
C5_MalformedCacheLoadsEmpty ==
    [][ pc = "start" /\ file_exists /\ ~HoldsObject(file) /\ panic' # "open" =>
          /\ phase' = "Polling"
          /\ pc' = "delay"
          /\ release_info' = MapNew ]_vars

\* one line of the notification body as the specification gives it
PlainLine(repo, release) == repo \o <<":", " ">> \o release.v \o <<"\n">>

RECURSIVE PlainContent(_)
PlainContent(json) ==
    IF json = <<>> THEN <<>>
    ELSE PlainLine(Head(json)[1], Head(json)[2]) \o PlainContent(Tail(json))

\* C6: the notification body has one line per changed repository: the
\* repository, a colon and a space, the tag text itself, a newline.  For the
\* Change Set {a/b -> v1.1} it is the 10 characters "a/b: v1.1" and a newline.
C6_NotificationBody ==
    pc = "save" /\ ~MapIsEmpty(new_release_info) =>
        /\ notified = PlainContent(new_release_info)
        /\ new_release_info = << <<RepoAB, JStr(V11)>> >> =>
             notified = <<"a", "/", "b", ":", " ", "v", "1", ".", "1", "\n">>

\* C7: a failure to display the notification does not end the process.
C7_NotifyFailureConfined == ~(phase = "Panicked" /\ pc = "notify")

\* C8: a failing save (the open or the write failing) leaves the process in
\* the poll loop, asleep until the next cycle, and the cache file as it was.
C8_SaveFailureSurvived ==
    [][ pc = "save" /\ (panic' = "open_write" \/ save_result' = "err") =>
          /\ phase' = "Polling"
          /\ pc' = "sleep"
          /\ file' = file ]_vars

\* C9: only the startup load and the save step of a completed pass write the
\* cache file: a shutdown writes nothing, and neither does any step of the
\* pass over the repositories.
C9_NoFlushOnShutdown ==
    [][ (phase' = "Shutdown" \/ pc \notin {"start", "save"}) =>
          UNCHANGED <<file, file_exists>> ]_vars

\* C9 witness: the process was shut down in its second cycle, after a fetch of
\* that cycle changed the cache; the file still holds another mapping
C9_Witness ==
    /\ phase = "Shutdown" /\ cycle > 1
    /\ pc \in {"delay", "send", "text", "faildelay"}
    /\ ~MapIsEmpty(new_release_info)
    /\ HoldsObject(file)
    /\ from_str(file).val.v # release_info

\* C10: at each suspension point of the poll loop (the inter-request delay,
\* the fetch in flight, the post-failure delay, the one-hour sleep) the
\* shutdown can happen; it happens with the loop where it was, nothing of the
\* cycle being run first; and after it nothing changes any more.
C10_ShutdownAtSuspension ==
    /\ [](phase = "Polling" /\ pc \in {"delay", "send", "text", "faildelay", "sleep"}
            => ENABLED Shutdown)
    /\ [][ phase' = "Shutdown" =>
             UNCHANGED <<repos, file_exists, file, pc, cycle, idx, release_info,
                         new_release_info, body, notified, save_result, panic>> ]_vars
    /\ [][ phase = "Shutdown" => UNCHANGED vars ]_vars

\* C10 witness: the shutdown came while a request was in flight, in the
\* middle of the pass
C10_Witness ==
    /\ phase = "Shutdown" /\ pc = "send" /\ idx > 1
    /\ save_result = "none"

\* the bodies from which no tag is read, without a panic
NoTagBodies == {BodyNotJson, BodyNotList, BodyNoTag}

\* C12: a fetch that yields no tag (the request or the reading of the body
\* fails, the body is not JSON, is JSON but not a list, or its first element
\* has no tag field) leaves the Release Cache and the Change Set as they were,
\* for that repository and for every other.
C12_NoTagNoEffect ==
    [][ \/ pc \in {"send", "text"} /\ pc' = "faildelay"
        \/ pc = "faildelay"
        \/ pc = "parse" /\ body \in NoTagBodies
        => /\ release_info' = release_info
           /\ new_release_info' = new_release_info ]_vars

\* C12 witness: the fetch of a cached repository has just yielded a body that
\* is not JSON or not a list, and the loop moved on to the next repository
C12_Witness ==
    /\ phase = "Polling" /\ pc = "delay" /\ idx = 2
    /\ logged \in {"parse_error", "no_releases"}
    /\ MapHas(release_info, repos[1])

\* C13: once the pass over the repositories is over, the notification step is
\* followed by the save step and the save step by the one-hour sleep; the
\* notification is shown exactly when the Change Set is not empty, and the
\* save writes the text of the whole Release Cache.
C13_NotifyThenSaveThenSleep ==
    /\ [][ pc = "notify" =>
             /\ pc' = "save"
             /\ (notified' # <<>>) <=> ~MapIsEmpty(new_release_info) ]_vars
    /\ [][ pc = "save" /\ save_result' = "ok" =>
             /\ pc' = "sleep"
             /\ SubSeq(file', 1, Len(to_string(release_info))) = to_string(release_info) ]_vars
    /\ [][ pc' = "sleep" /\ pc # "sleep" => pc = "save" ]_vars
    /\ [][ pc' = "save" /\ pc # "save" => pc = "notify" ]_vars

\* C15: within a cycle the repositories are requested one at a time in the
\* configured order, each exactly once: a request is sent only when the
\* inter-request delay elapses, only after the one before it was dealt with,
\* and a failure does not lead to a second request.
C15_SequentialOncePerCycle ==
    /\ [](pc \in {"send", "text", "faildelay", "parse"} =>
            requested = SubSeq(repos, 1, idx))
    /\ [](pc = "delay" => requested = SubSeq(repos, 1, idx - 1))
    /\ [](pc \in {"notify", "save", "sleep"} => requested = repos)
    /\ [][ requested' # requested /\ requested' # <<>> =>
             /\ pc = "delay" /\ pc' = "send"
             /\ requested' = Append(requested, repos[idx]) ]_vars

\* C15 witness: in the second cycle the request of the second repository is
\* in flight, and the requests of the cycle so far are the configured list
C15_Witness ==
    /\ pc = "text" /\ idx = 2
    /\ requested = repos
    /\ cycle = 2

\* C16, as claimed: after a failed fetch, be it a transport failure or a body
\* that is not JSON, the post-failure delay takes place before the loop moves on.
C16_DelayAfterEveryFailure ==
    [][ logged' \in {"send_error", "response_error", "parse_error"} =>
          pc' = "faildelay" ]_vars

\* C16, amended: after a transport failure (the request fails, or the reading
\* of the body fails) the post-failure delay takes place, and the loop moves
\* on to the next repository only when it has elapsed; after a body that is
\* not JSON the loop moves on without the post-failure delay.
C16_DelayAfterTransportFailure ==
    /\ [][ logged' \in {"send_error", "response_error"} =>
             pc' = "faildelay" /\ idx' = idx ]_vars
    /\ [][ pc = "faildelay" /\ pc' # "faildelay" =>
             /\ logged \in {"send_error", "response_error"}
             /\ pc' \in {"delay", "notify"} ]_vars
    /\ [][ logged' = "parse_error" => pc' \in {"delay", "notify"} ]_vars

\* C16 witness: the reading of the body failed and the post-failure delay runs
C16_Witness == phase = "Polling" /\ pc = "faildelay" /\ logged = "response_error"

\* C17, as claimed: from the completion of the last fetch of a cycle to the
\* start of the one-hour sleep there is no point where the shutdown can happen.
C17_NoSuspensionAfterLastFetch ==
    phase = "Polling" /\ idx = Len(repos)
        /\ pc \in {"faildelay", "parse", "notify", "save"}
    => ~ENABLED Shutdown

\* C17, amended: from the parsing of a response body, and from the end of the
\* pass, through the notification and the save, to the start of the one-hour
\* sleep there is no point where the shutdown can happen; a cycle whose
\* notification was shown makes its save attempt before a shutdown can.
C17_NoSuspensionFromDiffToSleep ==
    /\ [](phase = "Polling" /\ pc \in {"parse", "notify", "save"} => ~ENABLED Shutdown)
    /\ [][ (pc \in {"parse", "notify", "save"}) => phase' # "Shutdown" ]_vars
    /\ [][ pc = "notify" /\ notified' # <<>> => pc' = "save" /\ phase' = "Polling" ]_vars
    /\ [][ pc = "save" /\ pc' # "save" => save_result' # "none" ]_vars

\* C17 witness: the notification of the cycle was shown and the save is next
C17_Witness == phase = "Polling" /\ pc = "save" /\ notified # <<>>

\* C19: each Change Set entry (repo, T) has cache[repo] = T, whatever the
\* configured list; a key enters the Change Set only as the repository being
\* polled, which had a cache entry before the observation.
C19_ChangeSetAgreesWithCache ==
    /\ [](\A i \in 1..Len(new_release_info) :
            /\ MapHas(release_info, new_release_info[i][1])
            /\ MapGet(release_info, new_release_info[i][1]) = new_release_info[i][2]
            /\ \E j \in 1..Len(repos) : repos[j] = new_release_info[i][1])
    /\ [][ \A k \in MapKeys(new_release_info') \ MapKeys(new_release_info) :
             k = repos[idx] /\ MapHas(release_info, k) ]_vars

\* C19 witness: the list names a/b twice; in the first cycle its first fetch
\* returned another tag than the cached one and its second the cached one
\* again, which the pass ends with in the Change Set and in the cache
C19_Witness ==
    /\ pc = "notify" /\ cycle = 1
    /\ repos[1] = repos[2]
    /\ HoldsObject(file)
    /\ MapHas(new_release_info, RepoAB)
    /\ MapHas(from_str(file).val.v, RepoAB)
    /\ MapGet(new_release_info, RepoAB) = MapGet(from_str(file).val.v, RepoAB)

\* the cycle before ended with a successful save, and every fetch of this
\* cycle yielded what the fetch at its place in the list yielded then
SameAsLastCycle == last_cycle.saved = "ok" /\ fetched = last_cycle.fetched

\* the fetches of one repository in this cycle that yielded a tag yielded the
\* same tag
OneTagPerRepository ==
    \A i, j \in 1..Len(fetched) :
        repos[i] = repos[j] /\ fetched[i].kind = "tag" /\ fetched[j].kind = "tag"
        => fetched[i].tag = fetched[j].tag

\* what a cycle that repeats the one before leaves behind at its save: no
\* Change Set, no notification, the cache file as the cycle before left it
NothingNew ==
    /\ MapIsEmpty(new_release_info)
    /\ notified = <<>>
    /\ file' = file

\* C11, as claimed: when two consecutive cycles get the same fetch results,
\* the second has an empty Change Set, shows no notification, and persists
\* the cache the first persisted.
C11_Idempotence ==
    [][ pc = "save" /\ save_result' = "ok" /\ SameAsLastCycle => NothingNew ]_vars

\* C11, amended: the same, provided the fetches of any one repository within
\* the cycle yield the same tag (as they do when no repository is configured
\* more than once).
C11_IdempotenceOneTag ==
    [][ pc = "save" /\ save_result' = "ok" /\ SameAsLastCycle /\ OneTagPerRepository
        => NothingNew ]_vars

\* C11 witness: a cycle that repeated the yields of the one before, a tag
\* among them, has saved; the cache is no longer the one loaded at startup
C11_Witness ==
    /\ pc = "sleep" /\ save_result = "ok"
    /\ SameAsLastCycle /\ OneTagPerRepository
    /\ \E i \in 1..Len(fetched) : fetched[i].kind = "tag"
    /\ release_info # startup_info

\* C14: after every successful save the cache file holds a mapping in which
\* each repository observed by this process maps to the tag of its latest
\* observation, and each other key loaded at startup maps to its loaded value.
C14_FileReflectsNewest ==
    [][ pc = "save" /\ save_result' = "ok" =>
          /\ HoldsObject(file')
          /\ LET saved == from_str(file').val.v IN
             /\ \A k \in MapKeys(observed) :
                    MapHas(saved, k) /\ MapGet(saved, k) = MapGet(observed, k)
             /\ \A k \in MapKeys(startup_info) \ MapKeys(observed) :
                    MapHas(saved, k) /\ MapGet(saved, k) = MapGet(startup_info, k) ]_vars

\* this process was started after an earlier one ended, and is in its first cycle
Restarted == cycle > 1 /\ last_cycle = NoCycle /\ pc # "start"

\* C18: a notification that is shown names no (repo, T) that an earlier cycle,
\* of this process or of one before it, notified and then saved successfully,
\* unless a fetch of repo has yielded another tag than T since.
C18_NotifiedAtMostOnce ==
    [][ pc = "notify" /\ notified' # <<>> =>
          \A i \in 1..Len(new_release_info) : new_release_info[i] \notin announced ]_vars

\* C18 witness: a restarted process loaded the entry of a repository whose tag
\* was notified and saved before, fetched that tag again, and ends its pass
\* with nothing to notify for it
C18_Witness ==
    /\ Restarted /\ phase = "Polling" /\ pc = "notify"
    /\ \E a \in announced :
         /\ MapHas(startup_info, a[1]) /\ MapGet(startup_info, a[1]) = a[2]
         /\ MapHas(observed, a[1]) /\ MapGet(observed, a[1]) = a[2]
         /\ ~MapHas(new_release_info, a[1])

====
